---- MODULE Spec2Model ----
(***************************************************************************)
(* Model of the STT-Compare backend: the per-client session coordinator   *)
(* (backend/main.py: ConnectionManager and websocket_endpoint) and the two *)
(* provider adapters (backend/providers/*.py).                             *)
(*                                                                         *)
(* One asyncio event loop runs every task.  A task runs without           *)
(* interruption between two awaits, so every action below is the code     *)
(* between two suspension points of one task.  The coordinator's handlers *)
(* (config, stop, audio, disconnect) are each one action; the Deepgram    *)
(* listen loop and the Speechmatics handler tasks suspend inside          *)
(* `await self.websocket.send_text(...)`, which is modelled by a begin    *)
(* step (the message enters the client channel) and an end step (the      *)
(* task resumes after the await).                                          *)
(***************************************************************************)
EXTENDS Integers, Sequences, FiniteSets, TLC

VARIABLES
    active_connections, \* ConnectionManager.active_connections: websocket -> connection_data
    adapters,           \* every provider object created so far, in creation order
    handlers,           \* Speechmatics handler tasks created by asyncio.create_task
    teardowns,          \* adapters with a disconnect() task spawned by ConnectionManager.disconnect
    clientLog,          \* per client websocket: the messages handed to websocket.send_text
    pc,                 \* per client websocket: position of websocket_endpoint
    nClient,            \* number of client messages received so far (bounded)
    nVendor,            \* number of vendor events so far: messages and closes (bounded)
    offered,            \* history: per adapter, the frames received while it was the
                        \* session's adapter and Connected
    stopLog,            \* history: per adapter, 0, or 1 + the length of the client log
                        \* when the stop that disconnected it returned
    vendorLog           \* history: the vendor messages whose content was translated,
                        \* each with the events its handler wrote

vars == <<active_connections, adapters, handlers, teardowns, clientLog, pc,
          nClient, nVendor, offered, stopLog, vendorLog>>

----------------------------------------------------------------------------
(* Bounds of the model. *)

\* Provider objects created in one run.
MaxAdapters == 2

\* Client messages (config, stop, audio) received in one run.
MaxClientMsgs == 3

\* Client messages in one run of the longer sessions (SpecRestart).
MaxRestartMsgs == 4

\* Vendor messages whose content is translated in one run (SpecTranslate).
MaxTranslated == 1

\* Words in one Deepgram alternative.
MaxWords == 3

\* Vendor events (messages and closes) in one run.
MaxVendorEvents == 2

\* Segments in one Speechmatics message.
MaxSegments == 2

----------------------------------------------------------------------------
(* Names. *)

Providers == {"speechmatics", "deepgram"}

\* main.py iterates the providers in this order (lines 76-111, 124, 136).
ProviderOrder == <<"speechmatics", "deepgram">>

\* The client connections.
WebSockets == {"w1", "w2"}

\* The client of the runs with one session.
Clients == {"w1"}

\* Python's None as the value of connection_data[provider_name].
NoAdapter == 0

\* The providers' sub-configuration in a config message: with a non-empty
\* apiKey ("key"), or without one (entry absent, apiKey absent or empty).
KeyKinds == {"key", "nokey"}

Configs == [Providers -> KeyKinds]

NoConfig == [p \in Providers |-> "unset"]

WithKey(cfg) == {p \in Providers : cfg[p] = "key"}

----------------------------------------------------------------------------
(* Messages to the client. *)

\* {"provider": p, "error": text}; adapter is the sending object (0: the coordinator).
ErrorEvent(p, a, text) ==
    [provider |-> p, kind |-> "error", text |-> text, adapter |-> a,
     msg |-> 0, seg |-> 0, is_final |-> FALSE]

\* {"provider": p, "transcript": {...}} made from segment seg of vendor message msg.
TranscriptEvent(p, a, m, s, final) ==
    [provider |-> p, kind |-> "transcript", text |-> "", adapter |-> a,
     msg |-> m, seg |-> s, is_final |-> final]

----------------------------------------------------------------------------
(* Provider adapters: BaseSTTProvider and its two subclasses. *)

\* NewAdapter that keeps the client connection of the first session instead
\* of the one it is given.
NewAdapterFirstSocket(p, w) ==
    [provider |-> p, websocket |-> "w1", is_connected |-> FALSE, chan |-> "none",
     sent |-> <<>>, closeStreams |-> 0, closes |-> 0, dropped |-> 0,
     listen |-> "none"]

\* BaseSTTProvider.__init__ / SpeechmaticsProvider.__init__.
\* chan is the vendor channel handle: provider_websocket for Deepgram,
\* voice_client for Speechmatics: "none" (None), "unopened" (client object
\* created, never connected), "open", "closed".
\* sent, closeStreams and closes record what was done on the vendor channel.
\* dropped counts the malformed payloads received from the vendor.
\* listen is the position of DeepgramProvider._listen_for_responses.
NewAdapter(p, w) ==
    [provider |-> p, websocket |-> w, is_connected |-> FALSE, chan |-> "none",
     sent |-> <<>>, closeStreams |-> 0, closes |-> 0, dropped |-> 0,
     listen |-> "none"]

\* The adapter state the spec calls Connected.
Connected(ad) == ad.is_connected /\ ad.chan = "open"

\* DeepgramProvider.connect; a: the adapter's place in adapters; ok: whether
\* websockets.connect succeeds.  Returns the adapter after the call and the
\* events written to the client.  On success the listen task is created.
DeepgramConnect(ad, a, ok) ==
    IF ok
    THEN [ad |-> [ad EXCEPT !.chan = "open", !.is_connected = TRUE, !.listen = "recv"],
          events |-> <<>>]
    ELSE [ad |-> ad,
          events |-> <<ErrorEvent("deepgram", a, "Connection failed")>>]

\* SpeechmaticsProvider.connect; ok: whether voice_client.connect() succeeds.
\* voice_client is assigned (line 85) before the connection is tried.
SpeechmaticsConnect(ad, a, ok) ==
    IF ok
    THEN [ad |-> [ad EXCEPT !.chan = "open", !.is_connected = TRUE],
          events |-> <<>>]
    ELSE [ad |-> [ad EXCEPT !.chan = "unopened"],
          events |-> <<ErrorEvent("speechmatics", a, "Connection failed")>>]

\* await provider.connect()
ProviderConnect(ad, a, ok) ==
    IF ad.provider = "deepgram"
    THEN DeepgramConnect(ad, a, ok)
    ELSE SpeechmaticsConnect(ad, a, ok)

\* DeepgramProvider.disconnect: the CloseStream message and the close call
\* are made only on a channel that exists and is not closed.
DeepgramDisconnect(ad) ==
    IF ad.chan = "open"
    THEN [ad EXCEPT !.closeStreams = @ + 1, !.closes = @ + 1,
                    !.chan = "closed", !.is_connected = FALSE]
    ELSE [ad EXCEPT !.is_connected = FALSE]

\* SpeechmaticsProvider.disconnect: voice_client.close() is called whenever
\* voice_client is set.
SpeechmaticsDisconnect(ad) ==
    IF ad.chan # "none"
    THEN [ad EXCEPT !.closes = @ + 1, !.chan = "closed", !.is_connected = FALSE]
    ELSE [ad EXCEPT !.is_connected = FALSE]

\* await provider.disconnect()
ProviderDisconnect(ad) ==
    IF ad.provider = "deepgram"
    THEN DeepgramDisconnect(ad)
    ELSE SpeechmaticsDisconnect(ad)

\* DeepgramProvider.send_audio.  A send on a closed channel raises, and the
\* except clause reports it.
DeepgramSendAudio(ad, a, frame) ==
    IF ad.chan # "none" /\ ad.is_connected
    THEN IF ad.chan = "open"
         THEN [ad |-> [ad EXCEPT !.sent = Append(@, frame)], events |-> <<>>]
         ELSE [ad |-> ad,
               events |-> <<ErrorEvent("deepgram", a, "Audio transmission error")>>]
    ELSE [ad |-> ad, events |-> <<>>]

\* SpeechmaticsProvider.send_audio.
SpeechmaticsSendAudio(ad, a, frame) ==
    IF ad.chan # "none" /\ ad.is_connected
    THEN IF ad.chan = "open"
         THEN [ad |-> [ad EXCEPT !.sent = Append(@, frame)], events |-> <<>>]
         ELSE [ad |-> ad,
               events |-> <<ErrorEvent("speechmatics", a, "Audio transmission error")>>]
    ELSE [ad |-> ad, events |-> <<>>]

\* provider.send_audio(audio_data)
ProviderSendAudio(ad, a, frame) ==
    IF ad.provider = "deepgram"
    THEN DeepgramSendAudio(ad, a, frame)
    ELSE SpeechmaticsSendAudio(ad, a, frame)

----------------------------------------------------------------------------


Init ==
    /\ active_connections = <<>>
    /\ adapters = <<>>
    /\ handlers = {}
    /\ teardowns = {}
    /\ clientLog = [w \in WebSockets |-> <<>>]
    /\ pc = [w \in WebSockets |-> "new"]
    /\ nClient = 0
    /\ nVendor = 0
    /\ offered = <<>>
    /\ stopLog = <<>>
    /\ vendorLog = <<>>

\* ConnectionManager.connect, called at the top of websocket_endpoint.
ClientConnect(w) ==
    /\ pc[w] = "new"
    /\ active_connections' =
         [x \in DOMAIN active_connections \cup {w} |->
            IF x = w
            THEN [speechmatics |-> NoAdapter, deepgram |-> NoAdapter, config |-> NoConfig]
            ELSE active_connections[x]]
    /\ pc' = [pc EXCEPT ![w] = "loop"]
    /\ UNCHANGED <<adapters, handlers, teardowns, clientLog, nClient, nVendor,
                   offered, stopLog, vendorLog>>

----------------------------------------------------------------------------
(* ConnectionManager.initialize_providers. *)

\* InitializeProvider without the apiKey test of lines 79 and 97: the adapter
\* is created and connected whether or not the provider has a key.
InitializeProviderNoKeyTest(st, w, p, cfg, ok) ==
    LET a == Len(st.ads) + 1
        r == ProviderConnect(NewAdapter(p, w), a, ok)
    IN  [ads |-> Append(st.ads, r.ad),
         conn |-> [st.conn EXCEPT ![p] = a],
         log |-> st.log \o r.events]

\* One provider's branch (lines 76-93 for speechmatics, 95-111 for deepgram).
\* st = [ads, conn, log]: the adapters, connection_data and the client log so
\* far; ok: whether the vendor accepts the connection.
InitializeProvider(st, w, p, cfg, ok) ==
    IF cfg[p] = "key"
    THEN LET a == Len(st.ads) + 1
             r == ProviderConnect(NewAdapter(p, w), a, ok)
         IN  [ads |-> Append(st.ads, r.ad),
              conn |-> [st.conn EXCEPT ![p] = a],
              log |-> st.log \o r.events]
    ELSE [st EXCEPT !.log = Append(@, ErrorEvent(p, 0, "API key not provided"))]

\* InitializeProviders with a connect() that lets its exception out: a failed
\* Speechmatics connect reaches the except clause of line 113, which reports
\* a session-level error, and the Deepgram branch never runs.
InitializeProvidersAbort(st, w, cfg, out) ==
    LET st0 == [st EXCEPT !.conn.config = cfg]
        first == ProviderOrder[1]
    IN  IF cfg[first] = "key" /\ ~out[first]
        THEN [st0 EXCEPT !.ads = Append(@, NewAdapter(first, w)),
                         !.log = Append(@, ErrorEvent("none", 0, "Failed to initialize providers"))]
        ELSE InitializeProvider(
                 InitializeProvider(st0, w, first, cfg, out[first]),
                 w, ProviderOrder[2], cfg, out[ProviderOrder[2]])

\* The whole method: connect() catches its own exceptions, so both branches run.
\* cfg is a JSON object whose provider entries are objects or absent; with such
\* a message nothing inside the try block raises and lines 113-117 are not run.
InitializeProviders(st, w, cfg, out) ==
    LET st0 == [st EXCEPT !.conn.config = cfg]
        st1 == InitializeProvider(st0, w, ProviderOrder[1], cfg, out[ProviderOrder[1]])
    IN  InitializeProvider(st1, w, ProviderOrder[2], cfg, out[ProviderOrder[2]])

\* websocket_endpoint receives {"type": "config", "config": cfg}; out: for each
\* provider with a key, whether the vendor accepts the connection.
Config(w, cfg, out) ==
    /\ pc[w] = "loop"
    /\ Len(adapters) + Cardinality(WithKey(cfg)) <= MaxAdapters
    /\ \A p \in Providers \ WithKey(cfg) : out[p]
    /\ LET st == InitializeProviders(
                   [ads |-> adapters, conn |-> active_connections[w],
                    log |-> clientLog[w]], w, cfg, out)
           fresh == [i \in 1..(Len(st.ads) - Len(adapters)) |-> 0]
       IN  /\ adapters' = st.ads
           /\ active_connections' = [active_connections EXCEPT ![w] = st.conn]
           /\ clientLog' = [clientLog EXCEPT ![w] = st.log]
           /\ offered' = offered \o [i \in DOMAIN fresh |-> <<>>]
           /\ stopLog' = stopLog \o fresh
    /\ nClient' = nClient + 1
    /\ UNCHANGED <<handlers, teardowns, pc, nVendor, vendorLog>>

\* The same config message when the connect() of provider p never completes
\* (the vendor accepts the TCP connection and then stays silent): the
\* providers before p are initialized, the object of p is created (lines 82
\* or 100; SpeechmaticsProvider.connect has assigned voice_client at line 85)
\* and the coordinator stays inside `await provider.connect()` of line 87 or
\* 105.  No code puts a time limit on that await.
ConfigHang(w, cfg, out, p) ==
    /\ pc[w] = "loop"
    /\ p \in WithKey(cfg)
    /\ Len(adapters) + 1 + (IF p = ProviderOrder[2] /\ cfg[ProviderOrder[1]] = "key"
                            THEN 1 ELSE 0) <= MaxAdapters
    /\ \A q \in Providers \ WithKey(cfg) : out[q]
    /\ LET st0 == [ads |-> adapters,
                   conn |-> [active_connections[w] EXCEPT !.config = cfg],
                   log |-> clientLog[w]]
           st1 == IF p = ProviderOrder[2]
                  THEN InitializeProvider(st0, w, ProviderOrder[1], cfg,
                                          out[ProviderOrder[1]])
                  ELSE st0
           ad  == [NewAdapter(p, w) EXCEPT
                     !.chan = IF p = "speechmatics" THEN "unopened" ELSE "none"]
           fresh == [i \in 1..(Len(st1.ads) + 1 - Len(adapters)) |-> 0]
       IN  /\ adapters' = Append(st1.ads, ad)
           /\ active_connections' = [active_connections EXCEPT ![w] = st1.conn]
           /\ clientLog' = [clientLog EXCEPT ![w] = st1.log]
           /\ offered' = offered \o [i \in DOMAIN fresh |-> <<>>]
           /\ stopLog' = stopLog \o fresh
    /\ pc' = [pc EXCEPT ![w] = "connect"]
    /\ nClient' = nClient + 1
    /\ UNCHANGED <<handlers, teardowns, nVendor, vendorLog>>

----------------------------------------------------------------------------
(* ConnectionManager.stop_providers. *)

\* StopProvider without line 140: the adapter is disconnected and stays in
\* connection_data.
StopProviderKeepEntry(st, p) ==
    IF st.conn[p] # NoAdapter
    THEN [ads |-> [st.ads EXCEPT ![st.conn[p]] = ProviderDisconnect(@)],
          conn |-> st.conn]
    ELSE st

\* One iteration of the loop at lines 136-140; st = [ads, conn].
StopProvider(st, p) ==
    IF st.conn[p] # NoAdapter
    THEN [ads |-> [st.ads EXCEPT ![st.conn[p]] = ProviderDisconnect(@)],
          conn |-> [st.conn EXCEPT ![p] = NoAdapter]]
    ELSE st

StopProviders(st) ==
    StopProvider(StopProvider(st, ProviderOrder[1]), ProviderOrder[2])

\* The adapters connection_data holds.
Held(conn) == {conn[p] : p \in Providers} \ {NoAdapter}

\* websocket_endpoint calls manager.stop_providers (lines 164 and 174).
Stop(w) ==
    /\ pc[w] = "loop"
    /\ LET st == StopProviders([ads |-> adapters, conn |-> active_connections[w]])
       IN  /\ adapters' = st.ads
           /\ active_connections' = [active_connections EXCEPT ![w] = st.conn]
    /\ stopLog' = [a \in DOMAIN stopLog |->
                     IF a \in Held(active_connections[w])
                     THEN Len(clientLog[w]) + 1 ELSE stopLog[a]]
    /\ nClient' = nClient + 1
    /\ UNCHANGED <<handlers, teardowns, clientLog, pc, nVendor, offered, vendorLog>>

----------------------------------------------------------------------------
(* The text messages of websocket_endpoint other than config messages. *)

\* Text messages of the client: the stop message, the bare word END, a JSON
\* object of another type, a JSON object without type, JSON that is not an
\* object (a number, a list), and text that is neither JSON nor END.
StopText == "{\"type\": \"stop\"}"

EndText == "END"

PingText == "{\"type\": \"ping\"}"

EmptyObjectText == "{}"

NumberText == "5"

ListText == "[1, 2]"

NoiseText == "hello"

Texts == {StopText, EndText, PingText, EmptyObjectText, NumberText, ListText,
          NoiseText}

\* json.loads(data["text"]) of line 157 followed by message.get("type") of
\* line 159: the type of the message ("None" for an object without type),
\* "JSONDecodeError" when the text is not JSON, "AttributeError" when the
\* JSON value is not an object and so has no method get.
JsonType(text) ==
    CASE text = StopText -> "stop"
      [] text = PingText -> "ping"
      [] text = EmptyObjectText -> "None"
      [] text \in {NumberText, ListText} -> "AttributeError"
      [] OTHER -> "JSONDecodeError"

\* DispatchText without the except clause of lines 171-174.
DispatchTextJsonOnly(text) ==
    IF JsonType(text) = "JSONDecodeError"
    THEN "none"
    ELSE IF JsonType(text) = "AttributeError"
         THEN "raise"
         ELSE IF JsonType(text) = "stop" \/ text = "END"
              THEN "stop_providers"
              ELSE "none"

\* Lines 155-174 for a text that is not a config message: what the
\* coordinator does: it calls stop_providers, does nothing, or lets an
\* exception that is not a JSONDecodeError leave the loop ("raise").
DispatchText(text) ==
    IF JsonType(text) = "JSONDecodeError"
    THEN IF text = "END" THEN "stop_providers" ELSE "none"
    ELSE IF JsonType(text) = "AttributeError"
         THEN "raise"
         ELSE IF JsonType(text) = "stop" \/ text = "END"
              THEN "stop_providers"
              ELSE "none"

\* websocket_endpoint receives the text message text.  An exception that
\* leaves the loop is caught at line 178, and the finally clause runs
\* manager.disconnect(websocket): one disconnect() task per adapter in
\* connection_data, and the session's entry is deleted.
Text(w, text) ==
    CASE DispatchText(text) = "stop_providers" -> Stop(w)
      [] DispatchText(text) = "raise" ->
            /\ pc[w] = "loop"
            /\ teardowns' = teardowns \cup Held(active_connections[w])
            /\ active_connections' =
                 [x \in DOMAIN active_connections \ {w} |-> active_connections[x]]
            /\ pc' = [pc EXCEPT ![w] = "closed"]
            /\ nClient' = nClient + 1
            /\ UNCHANGED <<adapters, handlers, clientLog, nVendor, offered, stopLog,
                           vendorLog>>
      [] OTHER ->
            /\ pc[w] = "loop"
            /\ nClient' = nClient + 1
            /\ UNCHANGED <<active_connections, adapters, handlers, teardowns,
                           clientLog, pc, nVendor, offered, stopLog, vendorLog>>

----------------------------------------------------------------------------
(* ConnectionManager.send_audio_to_providers. *)

\* One provider's send_audio coroutine in the gather; st = [ads, log].
SendAudioTo(st, conn, p, frame) ==
    IF conn[p] # NoAdapter
    THEN LET r == ProviderSendAudio(st.ads[conn[p]], conn[p], frame)
         IN  [ads |-> [st.ads EXCEPT ![conn[p]] = r.ad], log |-> st.log \o r.events]
    ELSE st

\* SendAudioToProviders that stops after the first provider holding an adapter.
SendAudioToFirstProvider(st, conn, frame) ==
    IF conn[ProviderOrder[1]] # NoAdapter
    THEN SendAudioTo(st, conn, ProviderOrder[1], frame)
    ELSE SendAudioTo(st, conn, ProviderOrder[2], frame)

\* SendAudioToProviders in which a failed send ends the fan-out: the frame is
\* not sent to the second provider when the send to the first one failed.
SendAudioToProvidersUntilFailure(st, conn, frame) ==
    LET st1 == SendAudioTo(st, conn, ProviderOrder[1], frame)
    IN  IF Len(st1.log) > Len(st.log)
        THEN st1
        ELSE SendAudioTo(st1, conn, ProviderOrder[2], frame)

\* The gather of lines 123-130: every provider holding an adapter is sent the frame.
SendAudioToProviders(st, conn, frame) ==
    SendAudioTo(SendAudioTo(st, conn, ProviderOrder[1], frame),
                conn, ProviderOrder[2], frame)

\* websocket_endpoint receives a binary message.  The frame is named by its
\* place among the client's messages: nClient + 1.
Audio(w) ==
    /\ pc[w] = "loop"
    /\ LET conn == active_connections[w]
           st == SendAudioToProviders([ads |-> adapters, log |-> clientLog[w]],
                                      conn, nClient + 1)
       IN  /\ adapters' = st.ads
           /\ clientLog' = [clientLog EXCEPT ![w] = st.log]
           /\ offered' = [a \in DOMAIN offered |->
                            IF a \in Held(conn) /\ Connected(adapters[a])
                            THEN Append(offered[a], nClient + 1) ELSE offered[a]]
    /\ nClient' = nClient + 1
    /\ UNCHANGED <<active_connections, handlers, teardowns, pc, nVendor, stopLog, vendorLog>>

\* The same binary message when the send of provider p never completes: the
\* frame is handed to the vendor channel of every adapter, as above, the
\* channel of p never drains, so `await asyncio.gather(...)` of line 130 never
\* returns and the coordinator does not come back to websocket.receive().
AudioHang(w, p) ==
    /\ pc[w] = "loop"
    /\ active_connections[w][p] # NoAdapter
    /\ Connected(adapters[active_connections[w][p]])
    /\ LET conn == active_connections[w]
           st == SendAudioToProviders([ads |-> adapters, log |-> clientLog[w]],
                                      conn, nClient + 1)
       IN  /\ adapters' = st.ads
           /\ clientLog' = [clientLog EXCEPT ![w] = st.log]
           /\ offered' = [a \in DOMAIN offered |->
                            IF a \in Held(conn) /\ Connected(adapters[a])
                            THEN Append(offered[a], nClient + 1) ELSE offered[a]]
    /\ pc' = [pc EXCEPT ![w] = "send"]
    /\ nClient' = nClient + 1
    /\ UNCHANGED <<active_connections, handlers, teardowns, nVendor, stopLog, vendorLog>>

----------------------------------------------------------------------------
(* The end of websocket_endpoint: ConnectionManager.disconnect. *)

\* The client connection ends: receive() raises, the finally clause runs
\* manager.disconnect(websocket), which spawns one disconnect() task per
\* adapter in connection_data and deletes the session's entry.
ClientDisconnect(w) ==
    /\ pc[w] = "loop"
    /\ teardowns' = teardowns \cup
         (IF w \in DOMAIN active_connections THEN Held(active_connections[w]) ELSE {})
    /\ active_connections' =
         [x \in DOMAIN active_connections \ {w} |-> active_connections[x]]
    /\ pc' = [pc EXCEPT ![w] = "closed"]
    /\ UNCHANGED <<adapters, handlers, clientLog, nClient, nVendor, offered, stopLog, vendorLog>>

\* A disconnect() task spawned by ConnectionManager.disconnect runs.
RunDisconnect(a) ==
    /\ a \in teardowns
    /\ adapters' = [adapters EXCEPT ![a] = ProviderDisconnect(@)]
    /\ teardowns' = teardowns \ {a}
    /\ UNCHANGED <<active_connections, handlers, clientLog, pc, nClient, nVendor,
                   offered, stopLog, vendorLog>>

----------------------------------------------------------------------------
(* The vendor side and the adapters' background tasks. *)

\* Whether websocket.send_text succeeds: the client connection is still
\* there, with the coordinator at receive() or inside a vendor call.
ClientOpen(w) == pc[w] \in {"loop", "connect", "send"}

\* The vendor (or the network) closes the channel of adapter a.  No code of
\* the adapters resets is_connected when that happens.
VendorClose(a) ==
    /\ adapters[a].chan = "open"
    /\ nVendor < MaxVendorEvents
    /\ adapters' = [adapters EXCEPT ![a].chan = "closed"]
    /\ nVendor' = nVendor + 1
    /\ UNCHANGED <<active_connections, handlers, teardowns, clientLog, pc, nClient,
                   offered, stopLog, vendorLog>>

\* _listen_for_responses: recv() returns a transcription result with a
\* non-empty transcript and the flag is_final = final; _process_response
\* builds the event and enters websocket.send_text.  With the client gone
\* send_text raises, the error report raises too and is swallowed, and the
\* loop goes on.  The message is named by its place among the vendor events.
DeepgramRecv(a, final) ==
    /\ adapters[a].provider = "deepgram"
    /\ adapters[a].listen = "recv"
    /\ adapters[a].chan = "open"
    /\ nVendor < MaxVendorEvents
    /\ LET w == adapters[a].websocket
       IN  IF ClientOpen(w)
           THEN /\ clientLog' = [clientLog EXCEPT ![w] =
                       Append(@, TranscriptEvent("deepgram", a, nVendor + 1, 1, final))]
                /\ adapters' = [adapters EXCEPT ![a].listen = "write"]
           ELSE /\ clientLog' = clientLog
                /\ adapters' = adapters
    /\ nVendor' = nVendor + 1
    /\ UNCHANGED <<active_connections, handlers, teardowns, pc, nClient, offered,
                   stopLog, vendorLog>>

\* The payload kinds of a vendor message that _process_response cannot
\* translate: text that is not JSON ("notjson": json.loads raises
\* JSONDecodeError), and JSON of the wrong shape, such as a channel that is
\* not an object ("badshape": TypeError or AttributeError).
MalformedKinds == {"notjson", "badshape"}

\* DeepgramRecvMalformed in which the exception leaves _process_response and
\* ends the loop of _listen_for_responses.
DeepgramRecvMalformedEndsLoop(a, kind) ==
    /\ adapters[a].provider = "deepgram"
    /\ adapters[a].listen = "recv"
    /\ adapters[a].chan = "open"
    /\ nVendor < MaxVendorEvents
    /\ adapters' = [adapters EXCEPT ![a].listen = "done", ![a].dropped = @ + 1]
    /\ nVendor' = nVendor + 1
    /\ UNCHANGED <<active_connections, handlers, teardowns, clientLog, pc, nClient,
                   offered, stopLog, vendorLog>>

\* _listen_for_responses: recv() returns a malformed payload.  Lines 167-168
\* only log a JSONDecodeError; lines 169-171 report any other exception with
\* send_error_to_client, whose send_text is a write like any other.
DeepgramRecvMalformed(a, kind) ==
    /\ adapters[a].provider = "deepgram"
    /\ adapters[a].listen = "recv"
    /\ adapters[a].chan = "open"
    /\ nVendor < MaxVendorEvents
    /\ LET w == adapters[a].websocket
       IN  IF kind = "badshape" /\ ClientOpen(w)
           THEN /\ clientLog' = [clientLog EXCEPT ![w] =
                       Append(@, ErrorEvent("deepgram", a, "Response processing error"))]
                /\ adapters' = [adapters EXCEPT ![a].listen = "write",
                                                ![a].dropped = @ + 1]
           ELSE /\ clientLog' = clientLog
                /\ adapters' = [adapters EXCEPT ![a].dropped = @ + 1]
    /\ nVendor' = nVendor + 1
    /\ UNCHANGED <<active_connections, handlers, teardowns, pc, nClient, offered,
                   stopLog, vendorLog>>

\* send_text returns; the loop condition at line 96 is evaluated again.
DeepgramWriteEnd(a) ==
    /\ adapters[a].listen = "write"
    /\ adapters' = [adapters EXCEPT ![a].listen =
                      IF adapters[a].chan = "open" THEN "recv" ELSE "done"]
    /\ UNCHANGED <<active_connections, handlers, teardowns, clientLog, pc, nClient,
                   nVendor, offered, stopLog, vendorLog>>

\* recv() raises ConnectionClosed on a closed channel: the loop ends (line 99).
DeepgramConnectionClosed(a) ==
    /\ adapters[a].listen = "recv"
    /\ adapters[a].chan = "closed"
    /\ adapters' = [adapters EXCEPT ![a].listen = "done"]
    /\ UNCHANGED <<active_connections, handlers, teardowns, clientLog, pc, nClient,
                   nVendor, offered, stopLog, vendorLog>>

\* The Speechmatics SDK calls handle_interim_segments (kind "partial") or
\* handle_final_segments (kind "final") with a message of n segments: the
\* callback only creates a task for _handle_partial_segments or
\* _handle_final_segments (lines 88-96).
SpeechmaticsMessage(a, kind, n) ==
    /\ adapters[a].provider = "speechmatics"
    /\ adapters[a].chan = "open"
    /\ nVendor < MaxVendorEvents
    /\ handlers' = handlers \cup
         {[adapter |-> a, msg |-> nVendor + 1, kind |-> kind,
           nsegs |-> n, seg |-> 1, writing |-> FALSE]}
    /\ nVendor' = nVendor + 1
    /\ UNCHANGED <<active_connections, adapters, teardowns, clientLog, pc, nClient,
                   offered, stopLog, vendorLog>>

\* The SDK calls a callback with a message that has no "segments": the task
\* that is created will raise KeyError at line 150 or 178.
SpeechmaticsMalformed(a, kind) ==
    /\ adapters[a].provider = "speechmatics"
    /\ adapters[a].chan = "open"
    /\ nVendor < MaxVendorEvents
    /\ handlers' = handlers \cup
         {[adapter |-> a, msg |-> nVendor + 1, kind |-> kind,
           nsegs |-> 0, seg |-> 1, writing |-> FALSE]}
    /\ adapters' = [adapters EXCEPT ![a].dropped = @ + 1]
    /\ nVendor' = nVendor + 1
    /\ UNCHANGED <<active_connections, teardowns, clientLog, pc, nClient,
                   offered, stopLog, vendorLog>>

\* The handler task has not run yet.
Unstarted(t) == t.seg = 1 /\ ~t.writing

\* A handler task builds the event of its next segment and enters
\* websocket.send_text (lines 151-170, 180-203).  With the client gone
\* send_text raises and the except clause ends the task.  The event loop
\* starts tasks in the order of their creation; a task that has suspended
\* resumes whenever its await completes.
HandlerWriteBegin(t) ==
    /\ t \in handlers
    /\ ~t.writing
    /\ t.seg <= t.nsegs
    /\ Unstarted(t) => \A u \in handlers : Unstarted(u) => t.msg <= u.msg
    /\ LET w == adapters[t.adapter].websocket
       IN  IF ClientOpen(w)
           THEN /\ clientLog' = [clientLog EXCEPT ![w] =
                       Append(@, TranscriptEvent("speechmatics", t.adapter, t.msg,
                                                 t.seg, t.kind = "final"))]
                /\ handlers' = (handlers \ {t}) \cup {[t EXCEPT !.writing = TRUE]}
           ELSE /\ clientLog' = clientLog
                /\ handlers' = handlers \ {t}
    /\ UNCHANGED <<active_connections, adapters, teardowns, pc, nClient, nVendor,
                   offered, stopLog, vendorLog>>

\* The handler task of a message without "segments" runs: message["segments"]
\* raises, the except clause of lines 171-172 or 205-206 logs it and the task
\* ends.
HandlerRaise(t) ==
    /\ t \in handlers
    /\ t.nsegs = 0
    /\ \A u \in handlers : Unstarted(u) => t.msg <= u.msg
    /\ handlers' = handlers \ {t}
    /\ UNCHANGED <<active_connections, adapters, teardowns, clientLog, pc, nClient,
                   nVendor, offered, stopLog, vendorLog>>

\* send_text returns: the for loop goes to the next segment or the task ends.
HandlerWriteEnd(t) ==
    /\ t \in handlers
    /\ t.writing
    /\ handlers' = (handlers \ {t}) \cup
         (IF t.seg < t.nsegs
          THEN {[t EXCEPT !.seg = @ + 1, !.writing = FALSE]} ELSE {})
    /\ UNCHANGED <<active_connections, adapters, teardowns, clientLog, pc, nClient,
                   nVendor, offered, stopLog, vendorLog>>

----------------------------------------------------------------------------

Outcomes == [Providers -> BOOLEAN]

SegmentKinds == {"partial", "final"}

\* The coordinator handles one more message of a client of the set ws, as
\* long as the run has seen fewer than limit of them.
ClientMessage(ws, limit) ==
    /\ nClient < limit
    /\ \/ \E w \in ws, cfg \in Configs, out \in Outcomes : Config(w, cfg, out)
       \/ \E w \in ws, text \in Texts : Text(w, text)
       \/ \E w \in ws : Audio(w)

\* A message of the client during which a vendor call does not complete.
ClientMessageHang ==
    /\ nClient < MaxClientMsgs
    /\ \/ \E w \in Clients, cfg \in Configs, out \in Outcomes, p \in Providers :
              ConfigHang(w, cfg, out, p)
       \/ \E w \in Clients, p \in Providers : AudioHang(w, p)

Next ==
    \/ \E w \in Clients : ClientConnect(w)
    \/ ClientMessage(Clients, MaxClientMsgs)
    \/ ClientMessageHang
    \/ \E w \in Clients : ClientDisconnect(w)
    \/ \E a \in DOMAIN adapters : RunDisconnect(a)
    \/ \E a \in DOMAIN adapters : VendorClose(a)
    \/ \E a \in DOMAIN adapters, final \in BOOLEAN : DeepgramRecv(a, final)
    \/ \E a \in DOMAIN adapters, kind \in MalformedKinds : DeepgramRecvMalformed(a, kind)
    \/ \E a \in DOMAIN adapters : DeepgramWriteEnd(a)
    \/ \E a \in DOMAIN adapters : DeepgramConnectionClosed(a)
    \/ \E a \in DOMAIN adapters, kind \in SegmentKinds, n \in 1..MaxSegments :
           SpeechmaticsMessage(a, kind, n)
    \/ \E a \in DOMAIN adapters, kind \in SegmentKinds : SpeechmaticsMalformed(a, kind)
    \/ \E t \in handlers : HandlerWriteBegin(t)
    \/ \E t \in handlers : HandlerRaise(t)
    \/ \E t \in handlers : HandlerWriteEnd(t)

Spec == Init /\ [][Next]_vars

----------------------------------------------------------------------------
(* Longer sessions of one client that stays connected to vendors that stay *)
(* up: config, stop and audio messages, and the vendors' transcripts.      *)

NextRestart ==
    \/ \E w \in Clients : ClientConnect(w)
    \/ ClientMessage(Clients, MaxRestartMsgs)
    \/ \E a \in DOMAIN adapters, final \in BOOLEAN : DeepgramRecv(a, final)
    \/ \E a \in DOMAIN adapters : DeepgramWriteEnd(a)
    \/ \E a \in DOMAIN adapters, kind \in SegmentKinds, n \in 1..MaxSegments :
           SpeechmaticsMessage(a, kind, n)
    \/ \E t \in handlers : HandlerWriteBegin(t)
    \/ \E t \in handlers : HandlerWriteEnd(t)

SpecRestart == Init /\ [][NextRestart]_vars

----------------------------------------------------------------------------
(* Two client sessions at the same time, with vendors that stay up and     *)
(* Speechmatics messages of one segment.                                   *)

NextSessions ==
    \/ \E w \in WebSockets : ClientConnect(w)
    \/ ClientMessage(WebSockets, MaxClientMsgs)
    \/ \E w \in WebSockets : ClientDisconnect(w)
    \/ \E a \in DOMAIN adapters : RunDisconnect(a)
    \/ \E a \in DOMAIN adapters, final \in BOOLEAN : DeepgramRecv(a, final)
    \/ \E a \in DOMAIN adapters : DeepgramWriteEnd(a)
    \/ \E a \in DOMAIN adapters : DeepgramConnectionClosed(a)
    \/ \E a \in DOMAIN adapters, kind \in SegmentKinds : SpeechmaticsMessage(a, kind, 1)
    \/ \E t \in handlers : HandlerWriteBegin(t)
    \/ \E t \in handlers : HandlerWriteEnd(t)

SpecSessions == Init /\ [][NextSessions]_vars

----------------------------------------------------------------------------
(* The adapters' public interface called directly, in any order: the       *)
(* behaviours of one provider object whatever its caller does.             *)

InitAdapter ==
    /\ active_connections =
         [w \in Clients |->
            [speechmatics |-> NoAdapter, deepgram |-> NoAdapter, config |-> NoConfig]]
    /\ adapters = <<>>
    /\ handlers = {}
    /\ teardowns = {}
    /\ clientLog = [w \in WebSockets |-> <<>>]
    /\ pc = [w \in WebSockets |-> IF w \in Clients THEN "loop" ELSE "new"]
    /\ nClient = 0
    /\ nVendor = 0
    /\ offered = <<>>
    /\ stopLog = <<>>
    /\ vendorLog = <<>>

\* SpeechmaticsProvider(...) or DeepgramProvider(...).
CallNew(p, w) ==
    /\ Len(adapters) < MaxAdapters
    /\ adapters' = Append(adapters, NewAdapter(p, w))
    /\ offered' = Append(offered, <<>>)
    /\ stopLog' = Append(stopLog, 0)
    /\ UNCHANGED <<active_connections, handlers, teardowns, clientLog, pc, nClient,
                   nVendor, vendorLog>>

\* await provider.connect()
CallConnect(a, ok) ==
    /\ nClient < MaxClientMsgs
    /\ adapters[a].chan = "none"
    /\ LET r == ProviderConnect(adapters[a], a, ok)
       IN  /\ adapters' = [adapters EXCEPT ![a] = r.ad]
           /\ clientLog' = [clientLog EXCEPT ![adapters[a].websocket] = @ \o r.events]
    /\ nClient' = nClient + 1
    /\ UNCHANGED <<active_connections, handlers, teardowns, pc, nVendor, offered,
                   stopLog, vendorLog>>

\* await provider.disconnect()
CallDisconnect(a) ==
    /\ nClient < MaxClientMsgs
    /\ adapters' = [adapters EXCEPT ![a] = ProviderDisconnect(@)]
    /\ nClient' = nClient + 1
    /\ UNCHANGED <<active_connections, handlers, teardowns, clientLog, pc, nVendor,
                   offered, stopLog, vendorLog>>

\* await provider.send_audio(frame)
CallSendAudio(a) ==
    /\ nClient < MaxClientMsgs
    /\ LET r == ProviderSendAudio(adapters[a], a, nClient + 1)
       IN  /\ adapters' = [adapters EXCEPT ![a] = r.ad]
           /\ clientLog' = [clientLog EXCEPT ![adapters[a].websocket] = @ \o r.events]
    /\ offered' = [offered EXCEPT ![a] =
                     IF Connected(adapters[a]) THEN Append(@, nClient + 1) ELSE @]
    /\ nClient' = nClient + 1
    /\ UNCHANGED <<active_connections, handlers, teardowns, pc, nVendor, stopLog, vendorLog>>

NextAdapter ==
    \/ \E p \in Providers, w \in Clients : CallNew(p, w)
    \/ \E a \in DOMAIN adapters : CallConnect(a, TRUE)
    \/ \E a \in DOMAIN adapters : CallConnect(a, FALSE)
    \/ \E a \in DOMAIN adapters : CallDisconnect(a)
    \/ \E a \in DOMAIN adapters : CallSendAudio(a)
    \/ \E a \in DOMAIN adapters : VendorClose(a)

SpecAdapter == InitAdapter /\ [][NextAdapter]_vars

----------------------------------------------------------------------------
(* The content of the vendors' messages and its translation.               *)
(*                                                                         *)
(* JSON values are records [type, str, num]: a string is the sequence of   *)
(* its characters, "absent" is a key that the object does not have.  Times *)
(* in seconds are counted in quarters of a second (1.0 s is 4, 2.75 s is   *)
(* 11): these are exact as floating-point numbers, and so is their product *)
(* with 1000, which is 250 per quarter.                                    *)

JStr(chars) == [type |-> "str", str |-> chars, num |-> 0]

JInt(n) == [type |-> "int", str |-> <<>>, num |-> n]

JNull == [type |-> "null", str |-> <<>>, num |-> 0]

JAbsent == [type |-> "absent", str |-> <<>>, num |-> 0]

\* seconds * 1000, for a time of q quarters of a second.
Times1000(q) == q * 250

Digits == {"0", "1", "2", "3", "4", "5", "6", "7", "8", "9"}

DigitValue(c) ==
    CASE c = "0" -> 0 [] c = "1" -> 1 [] c = "2" -> 2 [] c = "3" -> 3
      [] c = "4" -> 4 [] c = "5" -> 5 [] c = "6" -> 6 [] c = "7" -> 7
      [] c = "8" -> 8 [] c = "9" -> 9

\* Python's int(chars) for text made of letters and digits: ok is false when
\* int raises ValueError (no character, or a character that is no digit).
RECURSIVE DecimalValue(_)
DecimalValue(chars) ==
    IF Len(chars) = 0
    THEN 0
    ELSE DecimalValue(SubSeq(chars, 1, Len(chars) - 1)) * 10
           + DigitValue(chars[Len(chars)])

PyInt(chars) ==
    IF Len(chars) > 0 /\ \A i \in DOMAIN chars : chars[i] \in Digits
    THEN [ok |-> TRUE, val |-> DecimalValue(chars)]
    ELSE [ok |-> FALSE, val |-> 0]

\* {"provider": p, "transcript": {is_final, start_ms, end_ms, speaker}};
\* speaker is JAbsent when the event has no speaker field.
Transcript(p, final, start_ms, end_ms, speaker) ==
    [provider |-> p, kind |-> "transcript", is_final |-> final,
     start_ms |-> start_ms, end_ms |-> end_ms, speaker |-> speaker]

\* Lines 163-169 and 193-200 of the Speechmatics handlers: the speaker field
\* of the event for a segment's speaker_id; raised: int() raised ValueError.
SpeechmaticsSpeaker(speaker_id) ==
    IF speaker_id.type \in {"absent", "null"}
    THEN [raised |-> FALSE, speaker |-> JAbsent]
    ELSE IF speaker_id.type = "str" /\ Len(speaker_id.str) > 0
                                   /\ speaker_id.str[1] = "S"
         THEN LET n == PyInt(SubSeq(speaker_id.str, 2, Len(speaker_id.str)))
              IN  IF n.ok
                  THEN [raised |-> FALSE, speaker |-> JInt(n.val - 1)]
                  ELSE [raised |-> TRUE, speaker |-> JAbsent]
         ELSE [raised |-> FALSE, speaker |-> speaker_id]

\* The body of the loop over the segments (lines 153-169, 182-200) for one
\* segment: the event with is_final = final, or raised.
SegmentEvent(segment, final) ==
    LET sp == SpeechmaticsSpeaker(segment.speaker_id)
    IN  [raised |-> sp.raised,
         event |-> Transcript("speechmatics", final,
                              Times1000(segment.start_time),
                              Times1000(segment.end_time), sp.speaker)]

\* PartialSegmentEvent that takes is_final from the segment's has_final hint.
PartialSegmentEventByHint(segment) == SegmentEvent(segment, segment.has_final)

\* Line 157: "is_final": False.
PartialSegmentEvent(segment) == SegmentEvent(segment, FALSE)

\* Line 186: "is_final": True.
FinalSegmentEvent(segment) == SegmentEvent(segment, TRUE)

\* The events a handler task writes: those of the segments before the first
\* one whose loop body raises; the except clause of lines 171-172 and
\* 205-206 then ends the task.
RECURSIVE WrittenEvents(_)
WrittenEvents(results) ==
    IF results = <<>> \/ Head(results).raised
    THEN <<>>
    ELSE <<Head(results).event>> \o WrittenEvents(Tail(results))

\* _handle_partial_segments(message)
HandlePartialSegments(message) ==
    WrittenEvents([i \in DOMAIN message.segments |->
                      PartialSegmentEvent(message.segments[i])])

\* _handle_final_segments(message)
HandleFinalSegments(message) ==
    WrittenEvents([i \in DOMAIN message.segments |->
                      FinalSegmentEvent(message.segments[i])])

\* The speaker_id values of the vendor's segments: no key, null, the tokens
\* S1, S2, S3 and S12, the strings S, Sam and UU, and the number 2.
SpeakerIds ==
    {JAbsent, JNull, JStr(<<"S", "1">>), JStr(<<"S", "2">>), JStr(<<"S", "3">>),
     JStr(<<"S", "1", "2">>), JStr(<<"S">>), JStr(<<"S", "a", "m">>),
     JStr(<<"U", "U">>), JInt(2)}

\* Segment times, in quarters of a second: 0.0, 2.0, 2.75.
SegmentTimes == {0, 8, 11}

Segments ==
    [speaker_id : SpeakerIds, start_time : SegmentTimes, end_time : SegmentTimes,
     has_final : BOOLEAN]

\* The messages of ADD_PARTIAL_SEGMENT and ADD_SEGMENT: {"segments": [...]}.
SegmentMessages ==
    [segments : UNION {[1..n -> Segments] : n \in 1..MaxSegments}]

\* The SDK delivers message to the handler of kind; the task of the handler
\* runs to its end.  How tasks interleave is the subject of Spec; here the
\* message and the events written for it are recorded together.
SpeechmaticsSegments(a, kind, message) ==
    /\ adapters[a].provider = "speechmatics"
    /\ adapters[a].chan = "open"
    /\ LET out == IF kind = "partial"
                  THEN HandlePartialSegments(message)
                  ELSE HandleFinalSegments(message)
       IN  /\ vendorLog' = Append(vendorLog,
                 [provider |-> "speechmatics", kind |-> kind, message |-> message,
                  out |-> out])
           /\ clientLog' = [clientLog EXCEPT ![adapters[a].websocket] = @ \o out]
    /\ UNCHANGED <<active_connections, adapters, handlers, teardowns, pc, nClient,
                   nVendor, offered, stopLog>>

\* A numeric field that the vendor's JSON object does not have.
NoField == -1

\* The number of places of the sequence speakers that hold x.
Occurrences(speakers, x) ==
    Cardinality({i \in DOMAIN speakers : speakers[i] = x})

\* The first place of the sequence speakers that holds x.
FirstPlace(speakers, x) ==
    CHOOSE i \in DOMAIN speakers :
        speakers[i] = x /\ \A j \in DOMAIN speakers : speakers[j] = x => i <= j

\* The speakers with the highest count: the candidates of most_common(1).
Commonest(speakers) ==
    {x \in {speakers[i] : i \in DOMAIN speakers} :
        \A i \in DOMAIN speakers :
            Occurrences(speakers, x) >= Occurrences(speakers, speakers[i])}

\* MostCommon that takes, among the speakers with the highest count, the one
\* met last.
MostCommonLastMet(speakers) ==
    CHOOSE x \in Commonest(speakers) :
        \A y \in Commonest(speakers) :
            FirstPlace(speakers, x) >= FirstPlace(speakers, y)

\* Counter(speakers).most_common(1)[0][0] of line 148: a Counter keeps its
\* keys in the order in which they were first met, and most_common(1) is the
\* max over them by count, which keeps the first of equal counts.
MostCommon(speakers) ==
    CHOOSE x \in Commonest(speakers) :
        \A y \in Commonest(speakers) :
            FirstPlace(speakers, x) <= FirstPlace(speakers, y)

\* Lines 141-149: the speaker field of the event for an alternative with the
\* utterance-level speaker and the speaker tags of its words (NoField: none).
DeepgramSpeaker(speaker, words) ==
    IF speaker # NoField
    THEN JInt(speaker)
    ELSE LET speakers == SelectSeq(words, LAMBDA tag : tag # NoField)
         IN  IF speakers # <<>> THEN JInt(MostCommon(speakers)) ELSE JAbsent

\* EndMs that leaves out the start.
EndMsDurationOnly(start_ms, duration_ms) == duration_ms

\* Line 126.
EndMs(start_ms, duration_ms) == start_ms + duration_ms

\* _process_response for a transcription result with one alternative: the
\* events written to the client (none for an empty transcript, line 120).
ProcessResponse(data) ==
    IF data.transcript = ""
    THEN <<>>
    ELSE LET start_ms == IF data.start # NoField THEN Times1000(data.start) ELSE 0
             duration_ms == IF data.duration # NoField
                            THEN Times1000(data.duration) ELSE 0
         IN  <<Transcript("deepgram", data.is_final, start_ms,
                          EndMs(start_ms, duration_ms),
                          DeepgramSpeaker(data.speaker, data.words))>>

\* The speaker tags of words: no tag, or speaker 0, 1 or 2.
WordTags == {NoField, 0, 1, 2}

\* The transcription results of the vendor: start without the field, 0.0 or
\* 1.0, duration without the field or 0.5, in quarters of a second.
Results ==
    [is_final : BOOLEAN, start : {NoField, 0, 4}, duration : {NoField, 2},
     transcript : {"", "hello"}, speaker : {NoField, 1},
     words : UNION {[1..n -> WordTags] : n \in 0..MaxWords}]

\* _listen_for_responses receives the transcription result data, and
\* _process_response writes its event.
DeepgramResponse(a, data) ==
    /\ adapters[a].provider = "deepgram"
    /\ adapters[a].chan = "open"
    /\ adapters[a].listen = "recv"
    /\ LET out == ProcessResponse(data)
       IN  /\ vendorLog' = Append(vendorLog,
                 [provider |-> "deepgram", kind |-> "result", message |-> data,
                  out |-> out])
           /\ clientLog' = [clientLog EXCEPT ![adapters[a].websocket] = @ \o out]
    /\ UNCHANGED <<active_connections, adapters, handlers, teardowns, pc, nClient,
                   nVendor, offered, stopLog>>

\* A session after a config message with both keys that both vendors accepted.
InitTranslate ==
    /\ adapters = <<ProviderConnect(NewAdapter("speechmatics", "w1"), 1, TRUE).ad,
                    ProviderConnect(NewAdapter("deepgram", "w1"), 2, TRUE).ad>>
    /\ active_connections =
         [w \in Clients |->
            [speechmatics |-> 1, deepgram |-> 2,
             config |-> [p \in Providers |-> "key"]]]
    /\ handlers = {}
    /\ teardowns = {}
    /\ clientLog = [w \in WebSockets |-> <<>>]
    /\ pc = [w \in WebSockets |-> IF w \in Clients THEN "loop" ELSE "new"]
    /\ nClient = 1
    /\ nVendor = 0
    /\ offered = <<<<>>, <<>>>>
    /\ stopLog = <<0, 0>>
    /\ vendorLog = <<>>

NextTranslate ==
    /\ Len(vendorLog) < MaxTranslated
    /\ \/ \E a \in DOMAIN adapters, kind \in SegmentKinds, message \in SegmentMessages :
              SpeechmaticsSegments(a, kind, message)
       \/ \E a \in DOMAIN adapters, data \in Results : DeepgramResponse(a, data)

SpecTranslate == InitTranslate /\ [][NextTranslate]_vars

----------------------------------------------------------------------------
(* Properties. *)

\* The part of the client log of w written by the step.
NewLog(w) == SubSeq(clientLog'[w], Len(clientLog[w]) + 1, Len(clientLog'[w]))

\* The adapters created by the step.
NewAdapters == (DOMAIN adapters') \ (DOMAIN adapters)

\* The adapters of session w and provider p whose vendor channel is open.
Live(w, p) ==
    {a \in DOMAIN adapters :
        /\ adapters[a].websocket = w
        /\ adapters[a].provider = p
        /\ adapters[a].chan = "open"}

\* C1: in every reachable state a session has at most one live adapter
\* (created, vendor channel opened and not yet disconnected) per provider name.
C1_AtMostOneLiveAdapter ==
    \A w \in WebSockets, p \in Providers : Cardinality(Live(w, p)) <= 1

\* C2: a config message whose providers with a non-empty apiKey are the set S
\* creates and stores one adapter for each provider of S and no other, and
\* writes for each provider outside S exactly one error event
\* {provider, "API key not provided"} and none for a provider of S.
C2_ConfigActivatesKeyedOnly ==
    [][\A w \in WebSockets, cfg \in Configs, out \in Outcomes :
         Config(w, cfg, out) =>
           /\ Cardinality(NewAdapters) = Cardinality(WithKey(cfg))
           /\ \A p \in WithKey(cfg) :
                /\ active_connections'[w][p] \in NewAdapters
                /\ adapters'[active_connections'[w][p]].provider = p
                /\ adapters'[active_connections'[w][p]].websocket = w
                /\ \A i \in DOMAIN NewLog(w) :
                     NewLog(w)[i] # ErrorEvent(p, 0, "API key not provided")
           /\ \A p \in Providers \ WithKey(cfg) :
                /\ active_connections'[w][p] = active_connections[w][p]
                /\ \A a \in NewAdapters : adapters'[a].provider # p
                /\ Cardinality({i \in DOMAIN NewLog(w) :
                      NewLog(w)[i] = ErrorEvent(p, 0, "API key not provided")}) = 1
                /\ \A i \in DOMAIN NewLog(w) :
                     NewLog(w)[i].provider = p => NewLog(w)[i].kind = "error"
    ]_vars

\* C2 witness: after a config with a key for one provider only, that provider
\* has an adapter, the other has none and its error event is in the client log.
C2_Witness ==
    \E w \in DOMAIN active_connections, p \in Providers, q \in Providers :
        /\ p # q
        /\ active_connections[w].config[p] = "nokey"
        /\ active_connections[w].config[q] = "key"
        /\ active_connections[w][p] = NoAdapter
        /\ active_connections[w][q] # NoAdapter
        /\ adapters[active_connections[w][q]].provider = q
        /\ \E i \in DOMAIN clientLog[w] :
               clientLog[w][i] = ErrorEvent(p, 0, "API key not provided")

\* The adapter a is the session's adapter and the session's adapter of the
\* other provider is one whose connect failed.
SiblingFailed(a) ==
    LET w == adapters[a].websocket
    IN  /\ w \in DOMAIN active_connections
        /\ a \in Held(active_connections[w])
        /\ \E b \in Held(active_connections[w]) :
               /\ adapters[b].provider # adapters[a].provider
               /\ adapters[b].chan \in {"none", "unopened"}

\* C3: when one provider's connect fails during a config and the other's
\* succeeds, the failing adapter writes an error event under its own provider
\* name, the other adapter is Connected when the config returns, the message
\* loop goes on, and from then on every vendor message of the other adapter
\* is still turned into transcript events on the client channel.
C3_ConnectFailureIsolated ==
    [][/\ \A w \in WebSockets, cfg \in Configs, out \in Outcomes :
            Config(w, cfg, out) =>
              \A p \in WithKey(cfg), q \in WithKey(cfg) :
                 (~out[p] /\ out[q]) =>
                    /\ \E i \in DOMAIN NewLog(w) :
                          NewLog(w)[i] = ErrorEvent(p, active_connections'[w][p],
                                                    "Connection failed")
                    /\ active_connections'[w][q] \in NewAdapters
                    /\ Connected(adapters'[active_connections'[w][q]])
                    /\ adapters'[active_connections'[w][q]].provider = q
                    /\ pc'[w] = "loop"
       /\ \A a \in DOMAIN adapters, final \in BOOLEAN :
            (SiblingFailed(a) /\ DeepgramRecv(a, final)) =>
               /\ pc' = pc
               /\ clientLog'[adapters[a].websocket] =
                     Append(clientLog[adapters[a].websocket],
                            TranscriptEvent("deepgram", a, nVendor + 1, 1, final))
       /\ \A a \in DOMAIN adapters, kind \in SegmentKinds, n \in 1..MaxSegments :
            (SiblingFailed(a) /\ SpeechmaticsMessage(a, kind, n)) =>
               \E t \in handlers' \ handlers :
                   t.adapter = a /\ t.seg = 1 /\ t.nsegs = n /\ ~t.writing
       /\ \A t \in handlers :
            (SiblingFailed(t.adapter) /\ HandlerWriteBegin(t)) =>
               /\ pc' = pc
               /\ clientLog'[adapters[t.adapter].websocket] =
                     Append(clientLog[adapters[t.adapter].websocket],
                            TranscriptEvent("speechmatics", t.adapter, t.msg, t.seg,
                                            t.kind = "final"))
    ]_vars

\* C3 witness: the session holds an adapter whose connect failed and a
\* Connected adapter of the other provider, and the client log holds the
\* connect error followed by a transcript event of the Connected adapter.
C3_Witness ==
    \E a \in DOMAIN adapters :
        /\ SiblingFailed(a)
        /\ Connected(adapters[a])
        /\ LET log == clientLog[adapters[a].websocket]
           IN  \E i \in DOMAIN log, j \in DOMAIN log :
                   /\ i < j
                   /\ log[i].kind = "error"
                   /\ log[i].text = "Connection failed"
                   /\ log[i].provider # adapters[a].provider
                   /\ log[j].kind = "transcript"
                   /\ log[j].adapter = a

\* C4: the frames sent on an adapter's vendor channel are exactly the frames
\* the client sent while the adapter was the session's adapter and Connected:
\* same order, none twice, none missing.
C4_FramesForwardedExactly ==
    \A a \in DOMAIN adapters : adapters[a].sent = offered[a]

\* C4 witness: two adapters of one session have each been sent two frames.
C4_Witness ==
    \E a \in DOMAIN adapters, b \in DOMAIN adapters :
        /\ a # b
        /\ Len(adapters[a].sent) = 2
        /\ Len(adapters[b].sent) = 2

\* The tasks inside websocket.send_text on the client channel w.
Writers(w) ==
    {<<"listen", a>> : a \in {x \in DOMAIN adapters :
          adapters[x].websocket = w /\ adapters[x].listen = "write"}}
    \cup
    {<<"handler", t>> : t \in {x \in handlers :
          adapters[x.adapter].websocket = w /\ x.writing}}

\* C5: in no reachable state are two tasks inside a write to the same client
\* channel.
C5_ClientWritesExclusive ==
    \A w \in WebSockets : Cardinality(Writers(w)) <= 1

\* C6: the transcript events of one adapter are in the client log in the
\* order in which its vendor messages, and the segments inside each message,
\* arrived.
C6_EventsInArrivalOrder ==
    \A w \in WebSockets :
       \A i \in DOMAIN clientLog[w], j \in DOMAIN clientLog[w] :
          (/\ i < j
           /\ clientLog[w][i].kind = "transcript"
           /\ clientLog[w][j].kind = "transcript"
           /\ clientLog[w][i].adapter = clientLog[w][j].adapter)
          => \/ clientLog[w][i].msg < clientLog[w][j].msg
             \/ /\ clientLog[w][i].msg = clientLog[w][j].msg
                /\ clientLog[w][i].seg < clientLog[w][j].seg

\* C7: once the coordinator has handled a stop, every adapter the session
\* held is closed and no transcript event of such an adapter is written to
\* the client channel any more.
C7_NoTranscriptAfterStop ==
    \A a \in DOMAIN adapters :
       stopLog[a] > 0 =>
          /\ ~adapters[a].is_connected
          /\ adapters[a].chan # "open"
          /\ \A i \in DOMAIN clientLog[adapters[a].websocket] :
                i >= stopLog[a] =>
                   ~(/\ clientLog[adapters[a].websocket][i].kind = "transcript"
                     /\ clientLog[adapters[a].websocket][i].adapter = a)

\* C8: no vendor channel sees a second teardown: at most one close handshake
\* and at most one close call per adapter, however often disconnect() is called.
C8_TeardownOnce ==
    \A a \in DOMAIN adapters :
        adapters[a].closes <= 1 /\ adapters[a].closeStreams <= 1

\* C9: when the client connection has ended and every disconnect task the
\* coordinator spawned has run, the session is out of the registry and no
\* adapter the session created has its vendor channel open.
C9_DisconnectClosesEveryAdapter ==
    \A w \in WebSockets :
       (pc[w] = "closed" /\ \A a \in teardowns : adapters[a].websocket # w) =>
          /\ w \notin DOMAIN active_connections
          /\ \A a \in DOMAIN adapters :
                adapters[a].websocket = w => adapters[a].chan # "open"

\* C10: an audio frame addressed to an adapter that is not Connected writes an
\* error event under that adapter's provider name to the client, sends
\* nothing on any vendor channel of that adapter and leaves the loop running.
C10_SendWhenNotConnectedReports ==
    [][\A w \in WebSockets :
         Audio(w) =>
           \A a \in Held(active_connections[w]) :
              ~Connected(adapters[a]) =>
                 /\ adapters'[a].sent = adapters[a].sent
                 /\ pc'[w] = "loop"
                 /\ \E i \in DOMAIN NewLog(w) :
                       /\ NewLog(w)[i].kind = "error"
                       /\ NewLog(w)[i].provider = adapters[a].provider
    ]_vars

\* The coordinator of session w is inside a vendor call of one of its
\* adapters that does not complete.
StuckCall(w) == pc[w] \in {"connect", "send"}

\* C11: while a connect or an audio send of one adapter does not complete
\* and the session holds a Connected adapter, the coordinator still takes the
\* client's next audio frame, which reaches that adapter, and still takes a
\* stop message.
C11_StuckAdapterDoesNotBlock ==
    \A w \in WebSockets :
       (/\ StuckCall(w)
        /\ \E a \in Held(active_connections[w]) : Connected(adapters[a])) =>
          /\ ENABLED Stop(w)
          /\ ENABLED Audio(w)

\* The step writes to the client w an error event under the provider name p.
ReportsErrorAs(w, p) ==
    \E i \in DOMAIN NewLog(w) :
        NewLog(w)[i].kind = "error" /\ NewLog(w)[i].provider = p

\* The step writes to the client an error event under the provider name of
\* adapter a.
ReportsError(a) == ReportsErrorAs(adapters[a].websocket, adapters[a].provider)

\* The step ends the receive loop of adapter a on a channel that the vendor
\* closed (no close call was made on it by the adapter).
ReceiveLoopEndsOnVendorClose(a) ==
    /\ adapters[a].listen \in {"recv", "write"}
    /\ adapters'[a].listen = "done"
    /\ adapters[a].closes = 0

\* C12: every adapter-level failure that happens while the client is there (a
\* failed connect, a failed audio send, a malformed vendor payload, a receive
\* loop ended by a vendor-side close) writes an error event under that
\* provider's name to the client and leaves the message loop running.
C12_EveryFailureReported ==
    [][/\ \A w \in WebSockets, cfg \in Configs, out \in Outcomes :
            Config(w, cfg, out) =>
               \A p \in WithKey(cfg) :
                  ~out[p] => ReportsErrorAs(w, p) /\ pc'[w] = "loop"
       /\ \A w \in WebSockets :
            Audio(w) =>
               \A a \in Held(active_connections[w]) :
                  (adapters[a].is_connected /\ adapters[a].chan = "closed") =>
                      ReportsError(a) /\ pc'[w] = "loop"
       /\ \A a \in DOMAIN adapters, kind \in MalformedKinds :
            (DeepgramRecvMalformed(a, kind) /\ ClientOpen(adapters[a].websocket)) =>
                ReportsError(a) /\ pc' = pc
       /\ \A a \in DOMAIN adapters :
            (/\ DeepgramWriteEnd(a) \/ DeepgramConnectionClosed(a)
             /\ ReceiveLoopEndsOnVendorClose(a)
             /\ ClientOpen(adapters[a].websocket)) =>
                ReportsError(a) /\ pc' = pc
    ]_vars

\* The send of the step's audio frame fails on adapter a: the adapter passes
\* the test of send_audio and its vendor channel is closed.
SendFails(a) == adapters[a].is_connected /\ adapters[a].chan = "closed"

\* C13: a failed audio send and a receive loop ended by a closed vendor
\* channel are reported to the client and take the adapter out of the
\* connected state (is_connected becomes false, so that later audio frames
\* are not sent to it), and the message loop goes on.
C13_FailureLeavesConnected ==
    [][/\ \A w \in WebSockets :
            Audio(w) =>
               \A a \in Held(active_connections[w]) :
                  SendFails(a) =>
                     /\ ReportsError(a)
                     /\ ~adapters'[a].is_connected
                     /\ pc'[w] = "loop"
       /\ \A a \in DOMAIN adapters :
            (/\ DeepgramWriteEnd(a) \/ DeepgramConnectionClosed(a)
             /\ ReceiveLoopEndsOnVendorClose(a)) =>
                ~adapters'[a].is_connected
    ]_vars

\* The session w has handled a stop that disconnected an adapter.
Stopped(w) ==
    \E b \in DOMAIN adapters : adapters[b].websocket = w /\ stopLog[b] > 0

\* C14: a stop leaves the session's adapter map empty; a config after it
\* stores, for every provider with a key, a new adapter in the state a first
\* config gives it (connected or not as the vendor answers, nothing sent,
\* nothing closed) and leaves the stopped adapters as they are; the new
\* adapters are sent the later audio frames and, while the session is open,
\* their vendor messages become transcript events on the client channel.
\* (A client message is counted in nClient, a vendor message is not.)
C14_StopThenConfigReactivates ==
    [][/\ \A w \in DOMAIN active_connections :
            (nClient' = nClient + 1 /\ Stop(w)) => Held(active_connections'[w]) = {}
       /\ \A w \in DOMAIN active_connections, cfg \in Configs, out \in Outcomes :
            (/\ nClient' = nClient + 1
             /\ Stopped(w)
             /\ Held(active_connections[w]) = {}
             /\ Config(w, cfg, out)) =>
               /\ \A b \in DOMAIN adapters : adapters'[b] = adapters[b]
               /\ \A p \in Providers :
                    IF p \in WithKey(cfg)
                    THEN /\ active_connections'[w][p] \in NewAdapters
                         /\ adapters'[active_connections'[w][p]].provider = p
                         /\ adapters'[active_connections'[w][p]].websocket = w
                         /\ adapters'[active_connections'[w][p]].is_connected = out[p]
                         /\ Connected(adapters'[active_connections'[w][p]]) = out[p]
                         /\ adapters'[active_connections'[w][p]].sent = <<>>
                         /\ adapters'[active_connections'[w][p]].closes = 0
                    ELSE active_connections'[w][p] = NoAdapter
       /\ \A w \in DOMAIN active_connections :
            (nClient' = nClient + 1 /\ Stopped(w) /\ Audio(w)) =>
               \A a \in Held(active_connections[w]) :
                  Connected(adapters[a]) =>
                     adapters'[a].sent = Append(adapters[a].sent, nClient + 1)
       /\ \A a \in DOMAIN adapters, final \in BOOLEAN :
            (/\ nClient' = nClient
             /\ ClientOpen(adapters[a].websocket)
             /\ Stopped(adapters[a].websocket)
             /\ stopLog[a] = 0
             /\ DeepgramRecv(a, final)) =>
               clientLog'[adapters[a].websocket] =
                  Append(clientLog[adapters[a].websocket],
                         TranscriptEvent("deepgram", a, nVendor + 1, 1, final))
       /\ \A t \in handlers :
            (/\ nClient' = nClient
             /\ ClientOpen(adapters[t.adapter].websocket)
             /\ Stopped(adapters[t.adapter].websocket)
             /\ stopLog[t.adapter] = 0
             /\ HandlerWriteBegin(t)) =>
               clientLog'[adapters[t.adapter].websocket] =
                  Append(clientLog[adapters[t.adapter].websocket],
                         TranscriptEvent("speechmatics", t.adapter, t.msg, t.seg,
                                         t.kind = "final"))
    ]_vars

\* C14 witness: the session holds an adapter created by a config that came
\* after a stop; the adapter has been sent an audio frame and one of its
\* transcript events is in the client log.
C14_Witness ==
    \E a \in DOMAIN adapters :
        /\ Stopped(adapters[a].websocket)
        /\ stopLog[a] = 0
        /\ adapters[a].websocket \in DOMAIN active_connections
        /\ a \in Held(active_connections[adapters[a].websocket])
        /\ \E b \in DOMAIN adapters : b < a /\ stopLog[b] > 0
        /\ Len(adapters[a].sent) >= 1
        /\ \E i \in DOMAIN clientLog[adapters[a].websocket] :
               /\ clientLog[adapters[a].websocket][i].kind = "transcript"
               /\ clientLog[adapters[a].websocket][i].adapter = a

\* C15: the text messages {"type": "stop"} and END are equivalent: a step is
\* the handling of one exactly when it is the handling of the other, and
\* after it every adapter the session held is disconnected, the adapter map
\* is empty, the message loop runs and nothing was written to the client.
C15_StopAndEndEquivalent ==
    [][\A w \in WebSockets :
         /\ Text(w, StopText) <=> Text(w, EndText)
         /\ (Text(w, StopText) \/ Text(w, EndText)) =>
               /\ Held(active_connections'[w]) = {}
               /\ \A a \in Held(active_connections[w]) :
                     ~adapters'[a].is_connected /\ adapters'[a].chan # "open"
               /\ pc'[w] = "loop"
               /\ clientLog'[w] = clientLog[w]
    ]_vars

\* C15 witness: a stop signal has disconnected a Connected adapter of a
\* session whose message loop is still running.
C15_Witness ==
    \E a \in DOMAIN adapters :
        /\ stopLog[a] > 0
        /\ adapters[a].closes = 1
        /\ pc[adapters[a].websocket] = "loop"
        /\ Held(active_connections[adapters[a].websocket]) = {}

\* The vendor messages of provider p whose content was translated.
Translated(p) == {i \in DOMAIN vendorLog : vendorLog[i].provider = p}

\* The speaker_id is a token: the letter S followed by digits.
IsSpeakerToken(speaker_id) ==
    /\ speaker_id.type = "str"
    /\ Len(speaker_id.str) >= 2
    /\ speaker_id.str[1] = "S"
    /\ \A i \in 2..Len(speaker_id.str) : speaker_id.str[i] \in Digits

\* C16: every segment of a Speechmatics message is delivered, and for every
\* segment with a speaker_id the event's speaker is the number of the token
\* less one when the speaker_id is a token S<digits> (S1 gives 0, S3 gives
\* 2), and the speaker_id itself, unchanged, in every other case.
C16_SpeakerNormalized ==
    \A i \in Translated("speechmatics") :
       LET segments == vendorLog[i].message.segments
           out == vendorLog[i].out
       IN  /\ Len(out) = Len(segments)
           /\ \A k \in DOMAIN segments :
                 segments[k].speaker_id.type \notin {"absent", "null"} =>
                    out[k].speaker =
                       IF IsSpeakerToken(segments[k].speaker_id)
                       THEN JInt(DecimalValue(Tail(segments[k].speaker_id.str)) - 1)
                       ELSE segments[k].speaker_id
           /\ \A k \in DOMAIN segments :
                 segments[k].speaker_id = JStr(<<"S", "3">>) => out[k].speaker = JInt(2)

\* The speakers tagged on the words of a result.
Tagged(words) == {words[i] : i \in DOMAIN words} \ {NoField}

\* C17: the speaker of a Deepgram event is the utterance-level speaker when
\* the alternative has one; otherwise, when words carry speaker tags, a
\* speaker that no other tagged speaker outnumbers and that, among those of
\* the same count, comes first in the words; otherwise the event has no
\* speaker field.
C17_DeepgramSpeaker ==
    \A i \in Translated("deepgram") :
       LET data == vendorLog[i].message
           out == vendorLog[i].out
       IN  out # <<>> =>
             IF data.speaker # NoField
             THEN out[1].speaker = JInt(data.speaker)
             ELSE IF Tagged(data.words) # {}
                  THEN /\ out[1].speaker.type = "int"
                       /\ out[1].speaker.num \in Tagged(data.words)
                       /\ \A t \in Tagged(data.words) :
                            \/ Occurrences(data.words, out[1].speaker.num)
                                 > Occurrences(data.words, t)
                            \/ /\ Occurrences(data.words, out[1].speaker.num)
                                    = Occurrences(data.words, t)
                               /\ FirstPlace(data.words, out[1].speaker.num)
                                    <= FirstPlace(data.words, t)
                  ELSE out[1].speaker = JAbsent

\* C17 witness: a result without utterance-level speaker whose words are
\* tagged 2, 1 (a tie) was delivered with speaker 2, and one tagged 1, 1, 2
\* would be delivered with speaker 1.
C17_Witness ==
    \E i \in Translated("deepgram") :
        /\ vendorLog[i].message.speaker = NoField
        /\ vendorLog[i].message.words = <<2, 1>>
        /\ vendorLog[i].out # <<>>
        /\ vendorLog[i].out[1].speaker = JInt(2)
        /\ MostCommon(<<1, 1, 2>>) = 1

\* C18: every event of a partial-segment message has is_final = false,
\* whatever has_final hint its segment carries, and every event of a
\* final-segment message has is_final = true.
C18_PartialNeverFinal ==
    \A i \in Translated("speechmatics") :
       \A k \in DOMAIN vendorLog[i].out :
          vendorLog[i].out[k].is_final = (vendorLog[i].kind = "final")

\* C18 witness: a partial-segment message whose segment carries the hint
\* has_final was delivered as an event that is not final.
C18_Witness ==
    \E i \in Translated("speechmatics") :
        /\ vendorLog[i].kind = "partial"
        /\ vendorLog[i].message.segments[1].has_final
        /\ vendorLog[i].out # <<>>
        /\ ~vendorLog[i].out[1].is_final

\* C19: a Deepgram result with start s and duration d and a non-empty
\* transcript yields one event with start_ms = s * 1000 and end_ms =
\* start_ms + d * 1000 (1.0 and 0.5 give 1000 and 1500); one with an empty
\* transcript yields no event; every event of a Speechmatics segment has
\* start_ms = start_time * 1000 and end_ms = end_time * 1000 (2.0 and 2.75
\* give 2000 and 2750).  Times are in quarters of a second.
C19_TimingConversion ==
    /\ \A i \in Translated("deepgram") :
          LET data == vendorLog[i].message
              out == vendorLog[i].out
          IN  /\ data.transcript = "" => out = <<>>
              /\ (data.transcript # "" /\ data.start # NoField
                                       /\ data.duration # NoField) =>
                    /\ Len(out) = 1
                    /\ out[1].start_ms * 4 = data.start * 1000
                    /\ (out[1].end_ms - out[1].start_ms) * 4 = data.duration * 1000
              /\ (data.transcript # "" /\ data.start = 4 /\ data.duration = 2) =>
                    out[1].start_ms = 1000 /\ out[1].end_ms = 1500
    /\ \A i \in Translated("speechmatics") :
          LET segments == vendorLog[i].message.segments
              out == vendorLog[i].out
          IN  \A k \in DOMAIN out :
                 /\ out[k].start_ms * 4 = segments[k].start_time * 1000
                 /\ out[k].end_ms * 4 = segments[k].end_time * 1000
                 /\ (segments[k].start_time = 8 /\ segments[k].end_time = 11) =>
                       out[k].start_ms = 2000 /\ out[k].end_ms = 2750

\* C19 witness: a Deepgram result with start 1.0 and duration 0.5 was
\* delivered with end_ms 1500.
C19_Witness ==
    \E i \in Translated("deepgram") :
        /\ vendorLog[i].message.start = 4
        /\ vendorLog[i].message.duration = 2
        /\ Len(vendorLog[i].out) = 1
        /\ vendorLog[i].out[1].end_ms = 1500

\* C20: a session whose adapters' disconnects, started by the session's
\* destruction, have not all completed is still in the registry.
C20_CascadeBeforeRemoval ==
    \A a \in teardowns : adapters[a].websocket \in DOMAIN active_connections

\* The session w is over for its adapters: the client connection has ended
\* and every disconnect task that this started has run, or the last message
\* handled was a stop that emptied the adapter map.
Wound(w) ==
    \/ pc[w] = "closed" /\ \A a \in teardowns : adapters[a].websocket # w
    \/ /\ pc[w] = "loop"
       /\ Stopped(w)
       /\ Held(active_connections[w]) = {}

\* C21: after the stop or the disconnect of a session no receive loop of an
\* adapter the session created is left waiting on an open vendor channel,
\* where nothing would ever end it.
C21_NoLeakedReceiveLoop ==
    \A a \in DOMAIN adapters :
       Wound(adapters[a].websocket) =>
          ~(adapters[a].listen \in {"recv", "write"} /\ adapters[a].chan = "open")

\* C22: when the send of an audio frame fails on an adapter the session
\* holds, an error event under that adapter's provider name is written to the
\* client, the same frame is sent to every other Connected adapter of the
\* session, and the message loop goes on, so that this holds for every later
\* frame too.
C22_SendFailureIsolated ==
    [][\A w \in WebSockets :
         Audio(w) =>
            \A a \in Held(active_connections[w]) :
               SendFails(a) =>
                  /\ ReportsError(a)
                  /\ adapters'[a].sent = adapters[a].sent
                  /\ pc'[w] = "loop"
                  /\ \A b \in Held(active_connections[w]) :
                        Connected(adapters[b]) =>
                           adapters'[b].sent = Append(adapters[b].sent, nClient + 1)
    ]_vars

\* C22 witness: two frames failed on one adapter of the session, each with
\* its error event in the client log, and both were sent to the other one.
C22_Witness ==
    \E a \in DOMAIN adapters, b \in DOMAIN adapters :
        /\ adapters[a].websocket = adapters[b].websocket
        /\ adapters[a].provider # adapters[b].provider
        /\ adapters[a].is_connected
        /\ adapters[a].chan = "closed"
        /\ adapters[a].sent = <<>>
        /\ Len(adapters[b].sent) = 2
        /\ Cardinality({i \in DOMAIN clientLog[adapters[a].websocket] :
              clientLog[adapters[a].websocket][i] =
                 ErrorEvent(adapters[a].provider, a, "Audio transmission error")}) = 2

\* C23: a malformed vendor payload writes no transcript and leaves the
\* adapter receiving: the Deepgram receive loop stays in the loop, and every
\* later well-formed message of an adapter that has dropped a payload, on a
\* channel that is still open and with the client there, is made into its
\* transcript event on the client channel.
C23_MalformedPayloadDropped ==
    [][/\ \A a \in DOMAIN adapters, kind \in MalformedKinds :
            DeepgramRecvMalformed(a, kind) =>
               /\ adapters'[a].listen \in {"recv", "write"}
               /\ adapters'[a].chan = "open"
               /\ adapters'[a].is_connected = adapters[a].is_connected
               /\ \A i \in DOMAIN NewLog(adapters[a].websocket) :
                     NewLog(adapters[a].websocket)[i].kind # "transcript"
       /\ \A a \in DOMAIN adapters :
            (adapters[a].dropped > 0 /\ adapters[a].chan = "open"
                                     /\ DeepgramWriteEnd(a)) =>
               adapters'[a].listen = "recv"
       /\ \A a \in DOMAIN adapters, final \in BOOLEAN :
            (/\ adapters[a].dropped > 0
             /\ ClientOpen(adapters[a].websocket)
             /\ DeepgramRecv(a, final)) =>
               clientLog'[adapters[a].websocket] =
                  Append(clientLog[adapters[a].websocket],
                         TranscriptEvent("deepgram", a, nVendor + 1, 1, final))
       /\ \A a \in DOMAIN adapters, kind \in SegmentKinds :
            SpeechmaticsMalformed(a, kind) =>
               /\ adapters'[a].chan = "open"
               /\ adapters'[a].is_connected = adapters[a].is_connected
               /\ clientLog' = clientLog
       /\ \A t \in handlers :
            HandlerRaise(t) => clientLog' = clientLog /\ adapters' = adapters
       /\ \A a \in DOMAIN adapters, kind \in SegmentKinds, n \in 1..MaxSegments :
            (adapters[a].dropped > 0 /\ SpeechmaticsMessage(a, kind, n)) =>
               \E t \in handlers' \ handlers :
                   t.adapter = a /\ t.seg = 1 /\ t.nsegs = n /\ ~t.writing
       /\ \A t \in handlers :
            (/\ adapters[t.adapter].dropped > 0
             /\ ClientOpen(adapters[t.adapter].websocket)
             /\ HandlerWriteBegin(t)) =>
               clientLog'[adapters[t.adapter].websocket] =
                  Append(clientLog[adapters[t.adapter].websocket],
                         TranscriptEvent("speechmatics", t.adapter, t.msg, t.seg,
                                         t.kind = "final"))
    ]_vars

\* C23 witness: an adapter has dropped the first vendor message of the run,
\* and the transcript event of the second one, which it received after that,
\* is in the client log.
C23_Witness ==
    \E a \in DOMAIN adapters :
        /\ adapters[a].dropped = 1
        /\ nVendor = 2
        /\ \E i \in DOMAIN clientLog[adapters[a].websocket] :
               /\ clientLog[adapters[a].websocket][i].kind = "transcript"
               /\ clientLog[adapters[a].websocket][i].adapter = a
               /\ clientLog[adapters[a].websocket][i].msg = 2

\* The adapters the session w created.
Owned(w) == {a \in DOMAIN adapters : adapters[a].websocket = w}

\* C24: with two sessions, every adapter a session holds is one it created
\* and every event an adapter wrote is in the log of the client whose session
\* created it; a message of one client (config, stop, END, audio) and the end
\* of one session change no adapter, no registry entry and no client log of
\* the other session, and start no disconnect of its adapters.
C24_SessionsIsolated ==
    [][/\ \A w \in DOMAIN active_connections' :
            \A a \in Held(active_connections'[w]) : adapters'[a].websocket = w
       /\ \A w \in WebSockets :
            \A i \in DOMAIN clientLog'[w] :
               clientLog'[w][i].adapter # 0 =>
                  adapters'[clientLog'[w][i].adapter].websocket = w
       /\ \A w \in WebSockets :
            (\/ /\ nClient' = nClient + 1
                /\ \/ \E cfg \in Configs, out \in Outcomes : Config(w, cfg, out)
                   \/ \E text \in Texts : Text(w, text)
                   \/ Audio(w)
             \/ ClientDisconnect(w)) =>
               /\ \A a \in DOMAIN adapters :
                     adapters[a].websocket # w => adapters'[a] = adapters[a]
               /\ \A a \in NewAdapters : adapters'[a].websocket = w
               /\ \A x \in WebSockets \ {w} :
                     /\ clientLog'[x] = clientLog[x]
                     /\ pc'[x] = pc[x]
                     /\ x \in DOMAIN active_connections =>
                           /\ x \in DOMAIN active_connections'
                           /\ active_connections'[x] = active_connections[x]
               /\ \A a \in teardowns' \ teardowns : adapters[a].websocket = w
    ]_vars

\* C24 witness: two sessions each hold a Connected adapter; the adapter of the
\* second one has been sent an audio frame and the adapter of the first none.
C24_Witness ==
    \E a \in DOMAIN adapters, b \in DOMAIN adapters :
        /\ adapters[a].websocket = "w1"
        /\ adapters[b].websocket = "w2"
        /\ "w1" \in DOMAIN active_connections
        /\ "w2" \in DOMAIN active_connections
        /\ a \in Held(active_connections["w1"])
        /\ b \in Held(active_connections["w2"])
        /\ Connected(adapters[a])
        /\ Connected(adapters[b])
        /\ adapters[a].sent = <<>>
        /\ Len(adapters[b].sent) = 1

\* The text messages that are neither a config message nor a stop signal.
OtherTexts == Texts \ {StopText, EndText}

\* C25: the handling of a text message that is neither a config message nor
\* a stop signal changes no entry of the registry and no adapter, starts no
\* disconnect and leaves the message loop running.
C25_OtherTextIgnored ==
    [][\A w \in WebSockets, text \in OtherTexts :
         Text(w, text) =>
            /\ active_connections' = active_connections
            /\ adapters' = adapters
            /\ teardowns' = teardowns
            /\ pc'[w] = "loop"
    ]_vars

====
